---- MODULE Spec2Model ----
(***************************************************************************)
(* A model of the three tutorial notebooks of the repository:              *)
(*   src/unnamed/part_000   autoscaling of a real-time endpoint            *)
(*   src/unnamed/part_001   the four inference options                     *)
(*   src/workshop_4_distillation_and_acceleration/                         *)
(*       lab2_knowledge_distillation.ipynb   knowledge distillation        *)
(* A notebook is the sequence of its SDK statements, run top to bottom     *)
(* ("Run All"): a statement that raises ends the run.  The hosting         *)
(* service is the environment: it keeps endpoints, scales the registered   *)
(* variant, completes asynchronous inferences and training jobs.           *)
(***************************************************************************)
EXTENDS Integers, Sequences, FiniteSets, TLC

(***************************************************************************)
(* Bounds of the model.                                                    *)
(***************************************************************************)
\* Stands for requests = 200 of the load test (part_000 line 319).
MaxRequests == 7
\* os.cpu_count() ranges over 1..MaxCpu.
MaxCpu == 1
\* Stands for the 500 / 1000 iterations of the sequential predict loops.
MaxLoop == 2
\* The largest capacity the target-tracking policy may ask for.
MaxAsk == 5
\* Rows of a training batch: 1..MaxBatch.
MaxBatch == 2
\* Temperatures 1..MaxTemperature.
MaxTemperature == 2
\* alpha ranges over 0/AlphaDen .. AlphaDen/AlphaDen.
AlphaDen == 2
\* A logit is temperature * k * ln 2 with k in 0..MaxLogit.
MaxLogit == 2
\* outputs_student.loss ranges over 0..MaxStudentLoss (in units of ln 2).
MaxStudentLoss == 1

(***************************************************************************)
(* Program constants.                                                      *)
(***************************************************************************)
WorkersPerCpu == 5
MinCapacity == 1
\* A scalable target registered with a larger MaxCapacity.
MaxCapacity_larger == 4 + 1
MaxCapacity == 4
InitialInstanceCount == 1

VARIABLES
  nb,         \* the notebook being run
  pc,         \* index of the next statement of the notebook
  run,        \* "running" | "failed" (an exception reached the notebook)
  err,        \* the statements whose exception reached the notebook
  calls,      \* calls[k]: how many times statement k issued its SDK call
  iter,       \* the loop variable i of a sequential predict loop
  ep,         \* predictor variable -> its endpoint and model at the service
  inflight,   \* the predict call the main thread is blocked in (at most one)
  sent,       \* every request body that was sent to an endpoint
  shared_data, \* the object the notebook variable data is bound to
  cpu,        \* os.cpu_count()
  submitted,  \* number of executor.submit calls made so far
  pstat,      \* pooled request -> "new" | "queued" | "running" | "returned" | "raised"
  issued,     \* issued[i]: how many times pooled request i was sent
  target,     \* the registered scalable target
  policy,     \* the scaling policy that was put, if any
  desired,    \* DesiredInstanceCount of the variant AllTraffic
  asyncReq,   \* the asynchronous inference: "none" | "queued" | "done" | "failed"
  res,        \* the notebook variable res
  job,        \* the training job: "none" | "InProgress" | "Completed" | "Failed"
  step,       \* the training step: "idle" | "assert" | "forward" | "done"
              \* | "AssertionError"
  logits_size, \* last dimension of the student's and the teacher's logits
  args,       \* self.args: alpha and temperature
  batch_size, \* rows of the batch that went through student and teacher
  kl_sum,     \* running sum of the pointwise terms of nn.KLDivLoss
  kl_ref,     \* sum over the rows of KL(p || q), p and q as the notebook defines
  student_loss, \* outputs_student.loss
  loss,       \* what compute_loss returns
  cell,       \* where the run of the set-up cells is
  env,        \* what the account and the kernel answer (the cell's inputs)
  sess,       \* the notebook variable sess
  sagemaker_session_bucket, \* the notebook variable of that name
  role,       \* the notebook variable role
  out,        \* what the cells have printed, in order
  hyperparameters, \* the notebook variable of that name
  endpoint_name,   \* the notebook variable of that name
  predictor   \* what deploy returned: the endpoint's name and region

vars == << nb, pc, run, err, calls, iter, ep, inflight, sent, shared_data,
           cpu, submitted,
           pstat, issued, target, policy, desired, asyncReq, res, job,
           step, logits_size, args, batch_size, kl_sum, kl_ref,
           student_loss, loss,
           cell, env, sess, sagemaker_session_bucket, role, out,
           hyperparameters, endpoint_name, predictor >>

notebookVars == << nb, pc, run, err, calls, iter, ep, inflight, sent,
                   shared_data, cpu,
                   submitted, pstat, issued, target, policy, desired,
                   asyncReq, res, job >>
lossVars == << step, logits_size, args, batch_size, kl_sum, kl_ref,
              student_loss, loss >>
deployVars == << hyperparameters, endpoint_name, predictor >>
setupVars == << cell, env, sess, sagemaker_session_bucket, role, out,
               deployVars >>

poolVars == << submitted, pstat, issued >>
scaleVars == << target, policy, desired >>

(***************************************************************************)
(* Payloads and serializers.                                               *)
(***************************************************************************)
\* A Python dict with the given top-level keys.
DictPayload(keys) == [type |-> "dict", keys |-> keys]
\* A str naming a local file (audio_path = "sample1.flac").
PathPayload == [type |-> "path", keys |-> {}]
NoData == [type |-> "none", keys |-> {}]

\* A request dict whose key is misspelt.
data_without_inputs == DictPayload({"input"})
\* data = {"inputs": ...} of the request cells.
data == DictPayload({"inputs"})
\* sentiment_input = {"inputs": ... * 9}
sentiment_input == DictPayload({"inputs"})
\* audio_path = "sample1.flac"
audio_path == PathPayload

\* What a predictor's serializer puts on the wire for a payload.
\* JSONSerializer (the HuggingFacePredictor default) dumps a dict as a JSON
\* object with the dict's keys and a str as a JSON string; DataSerializer
\* reads the file a str names and sends its bytes under its content type.
Serialize(serializer, payload) ==
  IF serializer = "DataSerializer"
    THEN [content_type |-> "audio/x-audio", body |-> "bytes", keys |-> {}]
    ELSE IF payload.type = "dict"
      THEN [content_type |-> "application/json", body |-> "object",
            keys |-> payload.keys]
      ELSE [content_type |-> "application/json", body |-> "string", keys |-> {}]

(***************************************************************************)
(* Statements.                                                             *)
(***************************************************************************)
Stmt(op, e, line) ==
  [op |-> op, ep |-> e, line |-> line, data |-> NoData, n |-> 0,
   serializer |-> "none", mode |-> "none"]

DeployStmt(e, mode, serializer, line) ==
  [Stmt("deploy", e, line) EXCEPT !.mode = mode, !.serializer = serializer]
PredictStmt(e, payload, line) ==
  [Stmt("predict", e, line) EXCEPT !.data = payload, !.n = 1]
PredictLoopStmt(e, payload, n, line) ==
  [Stmt("predict", e, line) EXCEPT !.data = payload, !.n = n]
AsyncPredictStmt(e, payload, line) ==
  [Stmt("predict_async_wait", e, line) EXCEPT !.data = payload]

\* part_000: deploy, one request, the sequential load loop, the autoscaling
\* registration, the threaded load test, describe_endpoint, clean up.
autoscaling_notebook ==
  << DeployStmt("predictor", "realtime", "JSONSerializer", 112),
     PredictStmt("predictor", data, 164),
     PredictLoopStmt("predictor", data, MaxLoop, 174),
     Stmt("register_scalable_target", "predictor", 255),
     Stmt("put_scaling_policy", "predictor", 277),
     [Stmt("load_test", "predictor", 322) EXCEPT !.data = data],
     Stmt("describe_endpoint", "predictor", 367),
     Stmt("delete_endpoint", "predictor", 387) >>

\* The inference-options notebook with the first clean-up cell run before
\* the first request cell.
inference_options_teardown_first ==
  << DeployStmt("predictor_rth", "realtime", "JSONSerializer", 232),
     Stmt("delete_model", "predictor_rth", 292),
     Stmt("delete_endpoint", "predictor_rth", 293),
     PredictStmt("predictor_rth", data, 273),
     DeployStmt("predictor_rts3", "realtime", "JSONSerializer", 339),
     PredictStmt("predictor_rts3", data, 377),
     Stmt("delete_model", "predictor_rts3", 396),
     Stmt("delete_endpoint", "predictor_rts3", 397),
     Stmt("transform", "batch_job", 467),
     DeployStmt("async_predictor", "async", "JSONSerializer", 542),
     AsyncPredictStmt("async_predictor", data, 581),
     Stmt("delete_model", "async_predictor", 601),
     Stmt("delete_endpoint", "async_predictor", 602),
     DeployStmt("predictor_sls", "serverless", "DataSerializer", 672),
     PredictStmt("predictor_sls", audio_path, 708),
     Stmt("delete_model", "predictor_sls", 728),
     Stmt("delete_endpoint", "predictor_sls", 729) >>

\* part_001: real-time from the hub, real-time from S3, batch transform,
\* asynchronous inference, serverless inference.
inference_options_notebook ==
  << DeployStmt("predictor_rth", "realtime", "JSONSerializer", 232),
     PredictStmt("predictor_rth", data, 273),
     Stmt("delete_model", "predictor_rth", 292),
     Stmt("delete_endpoint", "predictor_rth", 293),
     DeployStmt("predictor_rts3", "realtime", "JSONSerializer", 339),
     PredictStmt("predictor_rts3", data, 377),
     Stmt("delete_model", "predictor_rts3", 396),
     Stmt("delete_endpoint", "predictor_rts3", 397),
     Stmt("transform", "batch_job", 467),
     DeployStmt("async_predictor", "async", "JSONSerializer", 542),
     AsyncPredictStmt("async_predictor", data, 581),
     Stmt("delete_model", "async_predictor", 601),
     Stmt("delete_endpoint", "async_predictor", 602),
     DeployStmt("predictor_sls", "serverless", "DataSerializer", 672),
     PredictStmt("predictor_sls", audio_path, 708),
     Stmt("delete_model", "predictor_sls", 728),
     Stmt("delete_endpoint", "predictor_sls", 729) >>

\* The distillation notebook with delete_endpoint written, like
\* delete_model, without a call.
distillation_delete_not_called ==
  << Stmt("fit", "huggingface_estimator", 328),
     DeployStmt("predictor", "estimator", "JSONSerializer", 354),
     PredictLoopStmt("predictor", sentiment_input, MaxLoop, 372),
     Stmt("attribute_read", "predictor", 413),
     Stmt("attribute_read", "predictor", 414) >>

\* lab2_knowledge_distillation.ipynb: fit(wait=False), deploy the estimator,
\* the sequential load loop, clean up ("predictor.delete_model" is written
\* without a call, so it only reads the attribute).
distillation_notebook ==
  << Stmt("fit", "huggingface_estimator", 328),
     DeployStmt("predictor", "estimator", "JSONSerializer", 354),
     PredictLoopStmt("predictor", sentiment_input, MaxLoop, 372),
     Stmt("attribute_read", "predictor", 413),
     Stmt("delete_endpoint", "predictor", 414) >>

\* Where the threaded load test, the asynchronous predict and the serverless
\* predict stand in their notebooks.
LoadTestPc ==
  CHOOSE k \in DOMAIN autoscaling_notebook :
    autoscaling_notebook[k].op = "load_test"
AsyncPredictPc ==
  CHOOSE k \in DOMAIN inference_options_notebook :
    inference_options_notebook[k].op = "predict_async_wait"
ServerlessPredictPc ==
  CHOOSE k \in DOMAIN inference_options_notebook :
    /\ inference_options_notebook[k].op = "predict"
    /\ inference_options_notebook[k].ep = "predictor_sls"

Notebooks == {"autoscaling", "inference_options", "distillation"}

Program(n) ==
  CASE n = "autoscaling" -> autoscaling_notebook
    [] n = "inference_options" -> inference_options_notebook
    [] OTHER -> distillation_notebook

Predictors ==
  {"predictor", "predictor_rth", "predictor_rts3", "async_predictor",
   "predictor_sls"}

NoResult == [kind |-> "unset", of |-> "none"]
\* The inference result of the request sent to the endpoint of predictor e.
InferenceResult(e) == [kind |-> "result", of |-> e]
\* Where the result of an asynchronous inference will be written.
OutputLocation(e) == [kind |-> "output_path", of |-> e]

\* resource_id=f"endpoint/{predictor.endpoint_name}/variant/AllTraffic"
\* The endpoint is named by the predictor variable whose endpoint_name is
\* read.
ResourceId(e) == << "endpoint", e, "variant", "AllTraffic" >>

\* No scalable target registered, no scaling policy put.
NoTarget ==
  [registered |-> FALSE, min |-> 0, max |-> 0, ResourceId |-> << >>,
   ScalableDimension |-> "none"]
NoPolicy ==
  [put |-> FALSE, ResourceId |-> << >>, ScalableDimension |-> "none",
   Dimensions |-> [EndpointName |-> "none", VariantName |-> "none"]]

NoEndpoint == [status |-> "none", model |-> "none", serializer |-> "none"]

Prog == Program(nb)
Completed == run = "running" /\ pc > Len(Prog)
Cur == Prog[pc]
At(op) == run = "running" /\ pc <= Len(Prog) /\ Cur.op = op

\* workers = os.cpu_count() * 5
workers == cpu * WorkersPerCpu
\* requests = 200
requests == MaxRequests

(***************************************************************************)
(* DistillationTrainer.compute_loss.                                       *)
(* Numbers are exact rationals << numerator, denominator >> in lowest      *)
(* terms.  Logarithms are to base 2 and a logit z stands for z * ln 2, so  *)
(* exp of a logit is a power of two and every loss is in units of ln 2;    *)
(* the rows drawn are those whose softmax is a vector of powers of two.    *)
(***************************************************************************)
Abs(n) == IF n < 0 THEN -n ELSE n

RECURSIVE Gcd(_, _)
Gcd(a, b) == IF b = 0 THEN a ELSE Gcd(b, a % b)

Rat(n, d) ==
  LET g == Gcd(Abs(n), d) IN << n \div g, d \div g >>
RInt(n) == << n, 1 >>
RAdd(x, y) == Rat(x[1] * y[2] + y[1] * x[2], x[2] * y[2])
RSub(x, y) == Rat(x[1] * y[2] - y[1] * x[2], x[2] * y[2])
RMul(x, y) == Rat(x[1] * y[1], x[2] * y[2])
\* x / y for y > 0
RDiv(x, y) == Rat(x[1] * y[2], x[2] * y[1])

RECURSIVE Pow2(_)
Pow2(k) == IF k = 0 THEN 1 ELSE 2 * Pow2(k - 1)
RECURSIVE IsPow2(_)
IsPow2(x) == x = 1 \/ (x > 1 /\ x % 2 = 0 /\ IsPow2(x \div 2))
\* log2 of a power of two
RECURSIVE Lg(_)
Lg(x) == IF x = 1 THEN 0 ELSE 1 + Lg(x \div 2)
\* log2 of a rational whose numerator and denominator are powers of two
Log2(r) == Lg(r[1]) - Lg(r[2])

\* The classes of the classifier (the last dimension of the logits).
Labels == {"l1", "l2", "l3", "l4"}

RECURSIVE SumOver(_, _)
\* The sum of the integers f[i], i in S.
SumOver(f, S) ==
  IF S = {} THEN 0
  ELSE LET i == CHOOSE x \in S : TRUE IN f[i] + SumOver(f, S \ {i})
RECURSIVE RSumOver(_, _)
\* The sum of the rationals f[i], i in S.
RSumOver(f, S) ==
  IF S = {} THEN RInt(0)
  ELSE LET i == CHOOSE x \in S : TRUE IN RAdd(f[i], RSumOver(f, S \ {i}))

\* logits / self.args.temperature, for one row of logits
Scaled(logits, temperature) ==
  [i \in Labels |-> logits[i] \div temperature]
\* sum_j exp(z_j)
ExpSum(z) == SumOver([j \in Labels |-> Pow2(z[j])], Labels)
\* F.softmax(z, dim=-1)
softmax(z) ==
  LET total == ExpSum(z) IN [i \in Labels |-> Rat(Pow2(z[i]), total)]
\* F.log_softmax(z, dim=-1)
log_softmax(z) ==
  LET total == Lg(ExpSum(z)) IN [i \in Labels |-> z[i] - total]

\* nn.KLDivLoss on one row: the sum over the row of the pointwise terms
\* p * (log(p) - log_q); the first argument holds log-probabilities and the
\* second probabilities.
KLDivPointwise(log_q, p) ==
  RSumOver([i \in Labels |->
             RMul(p[i], RInt(Log2(p[i]) - log_q[i]))], Labels)

\* reduction="batchmean": the sum over all elements divided by the batch size.
batchmean(sum, rows) == RDiv(sum, RInt(rows))

\* loss_logits without the factor temperature ** 2.
loss_logits_unscaled(sum, rows, temperature) == batchmean(sum, rows)

\* loss_logits = loss_function(log_softmax(student / T), softmax(teacher / T))
\*               * (self.args.temperature ** 2)
loss_logits(sum, rows, temperature) ==
  RMul(batchmean(sum, rows), RInt(temperature * temperature))

\* loss = self.args.alpha * student_loss + (1.0 - self.args.alpha) * loss_logits
weighted_loss(alpha, s_loss, l_logits) ==
  RAdd(RMul(alpha, s_loss), RMul(RSub(RInt(1), alpha), l_logits))

\* D_KL(p, q) = sum_i p_i log(p_i / q_i), as the notebook defines it.
KL(p, q) ==
  RSumOver([i \in Labels |-> RMul(p[i], RInt(Log2(RDiv(p[i], q[i]))))], Labels)

\* The rows of softened logits whose probabilities are powers of two.
SoftenedRows ==
  {k : k \in {z \in [Labels -> 0..MaxLogit] : IsPow2(ExpSum(z))}}

\* The rows of logits drawn for a temperature: the multiples of the
\* temperature that soften to such a row.
LogitRows(temperature) ==
  {[i \in Labels |-> temperature * k[i]] : k \in SoftenedRows}

Zero == << 0, 1 >>

IdleLoss ==
  /\ step = "idle"
  /\ logits_size = [student |-> 0, teacher |-> 0]
  /\ args = [alpha |-> Zero, temperature |-> 1]
  /\ batch_size = 0
  /\ kl_sum = Zero
  /\ kl_ref = Zero
  /\ student_loss = Zero
  /\ loss = Zero

(***************************************************************************)
(* The configuration cell (part_001 and the distillation notebook):        *)
(*   sess = sagemaker.Session()                                            *)
(*   sagemaker_session_bucket=None                                         *)
(*   if sagemaker_session_bucket is None and sess is not None:             *)
(*       sagemaker_session_bucket = sess.default_bucket()                  *)
(*   try: role = sagemaker.get_execution_role()                            *)
(*   except ValueError: role = iam.get_role(RoleName=...)['Role']['Arn']   *)
(*   sess = sagemaker.Session(default_bucket=sagemaker_session_bucket)     *)
(*   print(...)                                                            *)
(***************************************************************************)
None == "None"
Unset == "unset"
Regions == {"us-east-1", "eu-west-1"}
\* A bucket name written into the cell in place of None.
GivenBuckets == {None, "my-bucket"}
\* The bucket a session makes up when it was given none.
AccountBucket(region) == "sagemaker-" \o region \o "-111122223333"
\* What sagemaker.get_execution_role() returns.
ExecutionRoleArn == "arn:aws:iam::111122223333:role/service-role/notebook"
\* iam.get_role(RoleName=name)['Role']['Arn']
RoleArn(name) == "arn:aws:iam::111122223333:role/" \o name

\* sagemaker.Session(default_bucket=bucket) in the region of the credentials.
Session(bucket) == [default_bucket |-> bucket, region |-> env.region]
NoSession == [default_bucket |-> None, region |-> None]
\* s.default_bucket(): the bucket the session was given, or the account's.
DefaultBucket(s) ==
  IF s.default_bucket # None THEN s.default_bucket ELSE AccountBucket(s.region)

\* What HfFolder.get_token() can return: the token of the logged-in user.
Tokens == {"hf_token_of_A", "hf_token_of_B"}

\* 'HF_MODEL_ID':'yiyanghkust/finbert-tone', # model_id from hf.co/models
\* and another model id of the hub, which has no organisation part.
HF_MODEL_ID == "yiyanghkust/finbert-tone"
HubModelIds == {HF_MODEL_ID, "distilbert-base-uncased"}

\* str(uuid4()): the one of the recorded run, and another.
Uuids == {"73d26f97-9376-4b3f-9334-a2e5f1c3a0b7",
          "0b2c4d6e-8f10-4a2b-9c3d-4e5f60718293"}

\* The time stamp the SDK puts in the names it generates: those of the two
\* recorded runs.
Timestamps == {"2021-10-29-12-18-52-365", "2022-04-13-07-11-17-059"}

\* job_name = f'knowledge-distillation'
job_name == "knowledge-distillation"

\* The endpoint name written into the dashboard URLs of the autoscaling
\* notebook, which is the one of the recorded run.
RecordedEndpointName ==
  "finbert-tone-73d26f97-9376-4b3f-9334-a2-2021-10-29-12-18-52-365"

\* str.split(sep): the pieces of s between the occurrences of the
\* one-character separator, from position i on.
RECURSIVE SplitFrom(_, _, _, _)
SplitFrom(s, sep, i, piece) ==
  IF i > Len(s) THEN << piece >>
  ELSE IF SubSeq(s, i, i) = sep
         THEN << piece >> \o SplitFrom(s, sep, i + 1, "")
         ELSE SplitFrom(s, sep, i + 1, piece \o SubSeq(s, i, i))
split(s, sep) == SplitFrom(s, sep, 1, "")

\* The name the SDK gives an endpoint (or a training job) that is created
\* without one: the base cut so that the whole fits 63 characters, a dash
\* and the time stamp.
NameFromBase(base, timestamp) ==
  LET room == 63 - Len(timestamp) - 1
  IN SubSeq(base, 1, IF Len(base) < room THEN Len(base) ELSE room)
       \o "-" \o timestamp

\* The answers the set-up cells of notebook n can get.
Environments(n) ==
  [given : IF n = "autoscaling" THEN {None} ELSE GivenBuckets,
   region : Regions,
   bucket : IF n = "autoscaling" THEN {"ok"} ELSE {"ok", "ClientError"},
   execution_role : {"ok", "ValueError", "ClientError"},
   iam_role : IF n = "autoscaling" THEN {"ok"} ELSE {"ok", "NoSuchEntity"},
   hub_token : IF n = "distillation" THEN Tokens ELSE {None},
   model_id : IF n = "autoscaling" THEN HubModelIds ELSE {None},
   uuid : IF n = "autoscaling" THEN Uuids ELSE {None},
   timestamp : IF n = "inference_options" THEN {None} ELSE Timestamps]
NoEnvironment ==
  [given |-> None, region |-> None, bucket |-> "ok", execution_role |-> "ok",
   iam_role |-> "ok", hub_token |-> None, model_id |-> None, uuid |-> None,
   timestamp |-> None]

NoHyperparameters == [alpha |-> None, temparature |-> None, hub_token |-> None]
NoPredictor == [endpoint_name |-> None, region |-> None]

IdleSetup ==
  /\ cell = "idle"
  /\ env = NoEnvironment
  /\ sess = NoSession
  /\ sagemaker_session_bucket = None
  /\ role = Unset
  /\ out = << >>
  /\ hyperparameters = NoHyperparameters
  /\ endpoint_name = Unset
  /\ predictor = NoPredictor

Init ==
  /\ nb \in Notebooks
  /\ pc = 1
  /\ run = "running"
  /\ err = {}
  /\ calls = [k \in 1..Len(Program(nb)) |-> 0]
  /\ iter = 0
  /\ ep = [e \in Predictors |-> NoEndpoint]
  /\ inflight = {}
  /\ sent = {}
  /\ shared_data = data
  /\ cpu \in 1..MaxCpu
  /\ submitted = 0
  /\ pstat = [i \in 1..MaxRequests |-> "new"]
  /\ issued = [i \in 1..MaxRequests |-> 0]
  /\ target = NoTarget
  /\ policy = NoPolicy
  /\ desired = 0
  /\ asyncReq = "none"
  /\ res = NoResult
  /\ job = "none"
  /\ IdleLoss
  /\ IdleSetup

(***************************************************************************)
(* Statements of the main thread.                                          *)
(***************************************************************************)
Called == [calls EXCEPT ![pc] = @ + 1]
Advance == pc' = pc + 1 /\ calls' = Called

\* <model>.deploy(...) / huggingface_estimator.deploy(...): creates the model,
\* the endpoint configuration and the endpoint, and returns the predictor
\* once the endpoint is in service.  An estimator has a model to deploy only
\* once its training job has completed: nothing between fit(wait=False) and
\* the deploy cell waits for the job, and a deploy that finds the job in
\* progress or failed has no model artifact and raises.
Deploy ==
  /\ At("deploy")
  /\ IF Cur.mode = "estimator" /\ job # "Completed"
       THEN /\ run' = "failed"
            /\ err' = err \cup {pc}
            /\ calls' = Called
            /\ UNCHANGED << pc, ep, desired >>
       ELSE /\ ep' = [ep EXCEPT ![Cur.ep] =
                       [status |-> "InService", model |-> "created",
                        serializer |-> Cur.serializer]]
            /\ desired' = IF Cur.mode = "serverless"
                            THEN 0 ELSE InitialInstanceCount
            /\ Advance
            /\ UNCHANGED << run, err >>
  /\ UNCHANGED << shared_data, nb, iter, inflight, sent, cpu, poolVars, target,
                  policy, asyncReq, res, job, lossVars, setupVars >>

\* predictor.predict(data): the request is serialized and sent; the main
\* thread blocks until the response.
PredictCall ==
  /\ At("predict")
  /\ inflight = {}
  /\ inflight' = {[ep |-> Cur.ep, i |-> iter]}
  /\ sent' = sent \cup {[ep |-> Cur.ep,
                         request |-> Serialize(ep[Cur.ep].serializer, Cur.data)]}
  /\ calls' = Called
  /\ UNCHANGED << shared_data, nb, pc, run, err, iter, ep, cpu, poolVars, scaleVars,
                  asyncReq, res, job, lossVars, setupVars >>

\* A loop that goes round once more than range(n) does.
PredictReturn_once_more ==
  /\ At("predict")
  /\ inflight # {}
  /\ inflight' = {}
  /\ IF iter < Cur.n
       THEN iter' = iter + 1 /\ pc' = pc
       ELSE iter' = 0 /\ pc' = pc + 1
  /\ res' = IF Cur.ep = "predictor_sls" THEN InferenceResult(Cur.ep) ELSE res
  /\ UNCHANGED << shared_data, nb, run, err, calls, ep, sent, cpu, poolVars, scaleVars,
                  asyncReq, job, lossVars, setupVars >>

\* The response arrives: the next iteration of "for i in range(n)", or the
\* next statement after the last one.
PredictReturn ==
  /\ At("predict")
  /\ inflight # {}
  /\ inflight' = {}
  /\ IF iter + 1 < Cur.n
       THEN iter' = iter + 1 /\ pc' = pc
       ELSE iter' = 0 /\ pc' = pc + 1
  /\ res' = IF Cur.ep = "predictor_sls" THEN InferenceResult(Cur.ep) ELSE res
  /\ UNCHANGED << shared_data, nb, run, err, calls, ep, sent, cpu, poolVars, scaleVars,
                  asyncReq, job, lossVars, setupVars >>

\* resource_id=f"endpoint/{predictor.endpoint_name}/variant/AllTraffic"
\* asg_client.register_scalable_target(ServiceNamespace='sagemaker',
\*     ResourceId=resource_id,
\*     ScalableDimension='sagemaker:variant:DesiredInstanceCount',
\*     MinCapacity=1, MaxCapacity=4)
RegisterScalableTarget ==
  /\ At("register_scalable_target")
  /\ target' = [registered |-> TRUE, min |-> MinCapacity, max |-> MaxCapacity,
                ResourceId |-> ResourceId(Cur.ep),
                ScalableDimension |-> "sagemaker:variant:DesiredInstanceCount"]
  /\ Advance
  /\ UNCHANGED << shared_data, nb, run, err, iter, ep, inflight, sent, cpu, poolVars,
                  policy, desired, asyncReq, res, job, lossVars, setupVars >>

\* A policy put on the endpoint itself rather than on its variant.
PutScalingPolicy_on_endpoint ==
  /\ At("put_scaling_policy")
  /\ policy' = [put |-> TRUE,
                ResourceId |-> << "endpoint", Cur.ep >>,
                ScalableDimension |-> "sagemaker:variant:DesiredInstanceCount",
                Dimensions |-> [EndpointName |-> Cur.ep,
                                VariantName |-> "AllTraffic"]]
  /\ Advance
  /\ UNCHANGED << shared_data, nb, run, err, iter, ep, inflight, sent, cpu, poolVars,
                  target, desired, asyncReq, res, job, lossVars, setupVars >>

\* asg_client.put_scaling_policy(
\*     PolicyName=f'CPUUtil-ScalingPolicy-{predictor.endpoint_name}',
\*     PolicyType='TargetTrackingScaling', ResourceId=resource_id,
\*     ScalableDimension='sagemaker:variant:DesiredInstanceCount',
\*     TargetTrackingScalingPolicyConfiguration={...
\*       'Dimensions': [{'Name': 'EndpointName',
\*                       'Value': predictor.endpoint_name},
\*                      {'Name': 'VariantName', 'Value': 'AllTraffic'}]...})
\* resource_id is the variable assigned in the cell of the registration.
PutScalingPolicy ==
  /\ At("put_scaling_policy")
  /\ policy' = [put |-> TRUE,
                ResourceId |-> ResourceId(Cur.ep),
                ScalableDimension |-> "sagemaker:variant:DesiredInstanceCount",
                Dimensions |-> [EndpointName |-> Cur.ep,
                                VariantName |-> "AllTraffic"]]
  /\ Advance
  /\ UNCHANGED << shared_data, nb, run, err, iter, ep, inflight, sent, cpu, poolVars,
                  target, desired, asyncReq, res, job, lossVars, setupVars >>

\* bt_sm.describe_endpoint(EndpointName=predictor.endpoint_name) and the print
\* of the instance counts.
DescribeEndpoint ==
  /\ At("describe_endpoint")
  /\ Advance
  /\ UNCHANGED << shared_data, nb, run, err, iter, ep, inflight, sent, cpu, poolVars,
                  scaleVars, asyncReq, res, job, lossVars, setupVars >>

\* <predictor>.delete_model()
DeleteModel ==
  /\ At("delete_model")
  /\ ep' = [ep EXCEPT ![Cur.ep].model = "deleted"]
  /\ Advance
  /\ UNCHANGED << shared_data, nb, run, err, iter, inflight, sent, cpu, poolVars,
                  scaleVars, asyncReq, res, job, lossVars, setupVars >>

\* "predictor.delete_model" without a call: the attribute is read, nothing
\* is sent to the service.
AttributeRead ==
  /\ At("attribute_read")
  /\ pc' = pc + 1
  /\ UNCHANGED << shared_data, nb, run, err, calls, iter, ep, inflight, sent, cpu,
                  poolVars, scaleVars, asyncReq, res, job, lossVars, setupVars >>

\* A delete_endpoint that returns without deleting anything.
DeleteEndpoint_no_effect ==
  /\ At("delete_endpoint")
  /\ Advance
  /\ UNCHANGED << shared_data, nb, run, err, iter, ep, inflight, sent, cpu, poolVars,
                  scaleVars, asyncReq, res, job, lossVars, setupVars >>

\* <predictor>.delete_endpoint()
DeleteEndpoint ==
  /\ At("delete_endpoint")
  /\ ep' = [ep EXCEPT ![Cur.ep].status = "Deleted"]
  /\ Advance
  /\ UNCHANGED << shared_data, nb, run, err, iter, inflight, sent, cpu, poolVars,
                  scaleVars, asyncReq, res, job, lossVars, setupVars >>

\* batch_job.transform(...): the batch transform job; it creates no endpoint.
Transform ==
  /\ At("transform")
  /\ Advance
  /\ UNCHANGED << shared_data, nb, run, err, iter, ep, inflight, sent, cpu, poolVars,
                  scaleVars, asyncReq, res, job, lossVars, setupVars >>

\* huggingface_estimator.fit(wait=False): starts the training job and
\* returns at once.
Fit ==
  /\ At("fit")
  /\ job' = "InProgress"
  /\ Advance
  /\ UNCHANGED << shared_data, nb, run, err, iter, ep, inflight, sent, cpu, poolVars,
                  scaleVars, asyncReq, res, lossVars, setupVars >>

\* The statements that call the SDK from the main thread.
SdkOps ==
  {"deploy", "predict", "predict_async_wait", "register_scalable_target",
   "put_scaling_policy", "describe_endpoint", "delete_model",
   "delete_endpoint", "transform", "fit"}
Blocking == {"predict", "predict_async_wait"}

\* A raise that is caught and passed over: the run goes on with the next
\* statement.
Raise_swallowed ==
  /\ run = "running"
  /\ pc <= Len(Prog)
  /\ Cur.op \in SdkOps
  /\ Cur.op \in Blocking => inflight # {}
  /\ err' = err \cup {pc}
  /\ inflight' = {}
  /\ iter' = 0
  /\ pc' = pc + 1
  /\ calls' = IF Cur.op \in Blocking THEN calls ELSE Called
  /\ UNCHANGED << shared_data, nb, run, ep, sent, cpu, poolVars, scaleVars, asyncReq, res,
                  job, lossVars, setupVars >>

\* A raise inside try/finally: the endpoint of the statement is deleted
\* before the exception reaches the notebook.
Raise_with_cleanup ==
  /\ run = "running"
  /\ pc <= Len(Prog)
  /\ Cur.op \in SdkOps
  /\ Cur.op \in Blocking => inflight # {}
  /\ run' = "failed"
  /\ err' = err \cup {pc}
  /\ inflight' = {}
  /\ calls' = IF Cur.op \in Blocking THEN calls ELSE Called
  /\ ep' = IF Cur.ep \in Predictors /\ ep[Cur.ep].status = "InService"
             THEN [ep EXCEPT ![Cur.ep].status = "Deleted"] ELSE ep
  /\ UNCHANGED << shared_data, nb, pc, iter, sent, cpu, poolVars, scaleVars,
                  asyncReq, res, job, lossVars, setupVars >>

\* The SDK call of the current statement raises.  No statement of the
\* notebooks is inside a try block that would catch it: the exception
\* reaches the notebook and the run ends at this statement.
Raise ==
  /\ run = "running"
  /\ pc <= Len(Prog)
  /\ Cur.op \in SdkOps
  /\ Cur.op \in Blocking => inflight # {}
  /\ run' = "failed"
  /\ err' = err \cup {pc}
  /\ inflight' = {}
  /\ calls' = IF Cur.op \in Blocking THEN calls ELSE Called
  /\ UNCHANGED << shared_data, nb, pc, iter, ep, sent, cpu, poolVars, scaleVars,
                  asyncReq, res, job, lossVars, setupVars >>

(***************************************************************************)
(* The threaded load test:                                                 *)
(*   with ThreadPoolExecutor(max_workers=workers) as executor:             *)
(*       for i in range(requests):                                         *)
(*           executor.submit(predictor.predict, data)                      *)
(***************************************************************************)
Running == {i \in 1..MaxRequests : pstat[i] = "running"}
Queued == {i \in 1..MaxRequests : pstat[i] = "queued"}
Finished == {i \in 1..MaxRequests : pstat[i] \in {"returned", "raised"}}

\* executor.submit(predictor.predict, data): the work item is queued and a
\* future is returned, which the loop drops.
Submit ==
  /\ At("load_test")
  /\ submitted < requests
  /\ submitted' = submitted + 1
  /\ pstat' = [pstat EXCEPT ![submitted + 1] = "queued"]
  /\ UNCHANGED << shared_data, nb, pc, run, err, calls, iter, ep, inflight, sent, cpu,
                  issued, scaleVars, asyncReq, res, job, lossVars, setupVars >>

\* A pool that starts a thread for every queued work item.
WorkerStart_uncapped ==
  /\ Queued # {}
  /\ LET i == CHOOSE q \in Queued : \A r \in Queued : q <= r
          stmt == autoscaling_notebook[LoadTestPc]
     IN /\ pstat' = [pstat EXCEPT ![i] = "running"]
        /\ issued' = [issued EXCEPT ![i] = @ + 1]
        /\ sent' = sent \cup
             {[ep |-> stmt.ep,
               request |-> Serialize(ep[stmt.ep].serializer, stmt.data)]}
  /\ UNCHANGED << shared_data, nb, pc, run, err, calls, iter, ep, inflight, cpu, submitted,
                  scaleVars, asyncReq, res, job, lossVars, setupVars >>

\* A predict that adds a "parameters" entry to the dict it is given, after
\* sending it.
WorkerStart_mutating ==
  /\ Queued # {}
  /\ Cardinality(Running) < workers
  /\ LET i == CHOOSE q \in Queued : \A r \in Queued : q <= r
          stmt == autoscaling_notebook[LoadTestPc]
     IN /\ pstat' = [pstat EXCEPT ![i] = "running"]
        /\ issued' = [issued EXCEPT ![i] = @ + 1]
        /\ sent' = sent \cup
             {[ep |-> stmt.ep,
               request |-> Serialize(ep[stmt.ep].serializer, shared_data)]}
        /\ shared_data' = DictPayload(shared_data.keys \cup {"parameters"})
  /\ UNCHANGED << nb, pc, run, err, calls, iter, ep, inflight, cpu, submitted,
                  scaleVars, asyncReq, res, job, lossVars, setupVars >>

\* A pool thread takes the oldest queued work item and calls
\* predictor.predict(data); the pool has at most max_workers threads.  The
\* call serializes the object data is bound to (the same object for every
\* work item) and neither it nor the predictor is written.
WorkerStart ==
  /\ Queued # {}
  /\ Cardinality(Running) < workers
  /\ LET i == CHOOSE q \in Queued : \A r \in Queued : q <= r
          stmt == autoscaling_notebook[LoadTestPc]
     IN /\ pstat' = [pstat EXCEPT ![i] = "running"]
        /\ issued' = [issued EXCEPT ![i] = @ + 1]
        /\ sent' = sent \cup
             {[ep |-> stmt.ep,
               request |-> Serialize(ep[stmt.ep].serializer, shared_data)]}
  /\ UNCHANGED << shared_data, nb, pc, run, err, calls, iter, ep, inflight, cpu, submitted,
                  scaleVars, asyncReq, res, job, lossVars, setupVars >>

\* A pool whose results come back in submission order only.
WorkerReturn_in_order(i) ==
  /\ pstat[i] = "running"
  /\ \A j \in Running : i <= j
  /\ pstat' = [pstat EXCEPT ![i] = "returned"]
  /\ UNCHANGED << shared_data, nb, pc, run, err, calls, iter, ep, inflight, sent, cpu,
                  submitted, issued, scaleVars, asyncReq, res, job, lossVars, setupVars >>

\* A pooled predict returns: its result is set on the future.
WorkerReturn(i) ==
  /\ pstat[i] = "running"
  /\ pstat' = [pstat EXCEPT ![i] = "returned"]
  /\ UNCHANGED << shared_data, nb, pc, run, err, calls, iter, ep, inflight, sent, cpu,
                  submitted, issued, scaleVars, asyncReq, res, job, lossVars, setupVars >>

\* A pooled predict raises: the exception is set on the future, which
\* nobody holds; the pool thread goes on with the next work item.
WorkerRaise(i) ==
  /\ pstat[i] = "running"
  /\ pstat' = [pstat EXCEPT ![i] = "raised"]
  /\ UNCHANGED << shared_data, nb, pc, run, err, calls, iter, ep, inflight, sent, cpu,
                  submitted, issued, scaleVars, asyncReq, res, job, lossVars, setupVars >>

\* An executor shut down without waiting (shutdown(wait=False)).
ExitPool_no_wait ==
  /\ At("load_test")
  /\ submitted = requests
  /\ Advance
  /\ UNCHANGED << shared_data, nb, run, err, iter, ep, inflight, sent, cpu, poolVars,
                  scaleVars, asyncReq, res, job, lossVars, setupVars >>

\* The end of the with block: executor.__exit__ is shutdown(wait=True), which
\* joins the pool threads, so it returns when every work item has finished.
ExitPool ==
  /\ At("load_test")
  /\ submitted = requests
  /\ Finished = 1..MaxRequests
  /\ Advance
  /\ UNCHANGED << shared_data, nb, run, err, iter, ep, inflight, sent, cpu, poolVars,
                  scaleVars, asyncReq, res, job, lossVars, setupVars >>

(***************************************************************************)
(* The hosting service.                                                    *)
(***************************************************************************)
Clamp(c, lo, hi) == IF c < lo THEN lo ELSE IF c > hi THEN hi ELSE c

\* Application Auto Scaling acts on the registered target under the policy:
\* the capacity c the target-tracking policy asks for (scale out under
\* load, scale in when idle) is kept within the target's MinCapacity and
\* MaxCapacity.
AutoScale(c) ==
  /\ target.registered
  /\ policy.put
  /\ ep["predictor"].status = "InService"
  /\ desired' = Clamp(c, target.min, target.max)
  /\ desired' # desired
  /\ UNCHANGED << shared_data, nb, pc, run, err, calls, iter, ep, inflight, sent, cpu,
                  poolVars, target, policy, asyncReq, res, job, lossVars, setupVars >>

\* The training job started by fit ends.
TrainingJobEnds ==
  /\ job = "InProgress"
  /\ job' \in {"Completed", "Failed"}
  /\ UNCHANGED << shared_data, nb, pc, run, err, calls, iter, ep, inflight, sent, cpu,
                  poolVars, scaleVars, asyncReq, res, lossVars, setupVars >>

\* The asynchronous endpoint takes the queued request and writes its
\* result to the output path, or fails on it.
AsyncInferenceEnds ==
  /\ asyncReq = "queued"
  /\ asyncReq' \in {"done", "failed"}
  /\ UNCHANGED << shared_data, nb, pc, run, err, calls, iter, ep, inflight, sent, cpu,
                  poolVars, scaleVars, res, job, lossVars, setupVars >>

(***************************************************************************)
(* Asynchronous inference: res = async_predictor.predict(data=data).       *)
(***************************************************************************)
\* predict uploads data to S3 and invokes the endpoint asynchronously, then
\* waits for the output.
AsyncPredictCall ==
  /\ At("predict_async_wait")
  /\ inflight = {}
  /\ asyncReq' = "queued"
  /\ inflight' = {[ep |-> Cur.ep, i |-> iter]}
  /\ sent' = sent \cup {[ep |-> Cur.ep,
                         request |-> Serialize(ep[Cur.ep].serializer, Cur.data)]}
  /\ calls' = Called
  /\ UNCHANGED << shared_data, nb, pc, run, err, iter, ep, cpu, poolVars, scaleVars, res,
                  job, lossVars, setupVars >>

\* A predict that, like predict_async, returns the output location at once.
AsyncPredictReturn_no_wait ==
  /\ At("predict_async_wait")
  /\ inflight # {}
  /\ res' = OutputLocation(Cur.ep)
  /\ inflight' = {}
  /\ pc' = pc + 1
  /\ UNCHANGED << shared_data, nb, run, err, calls, iter, ep, sent, cpu, poolVars,
                  scaleVars, asyncReq, job, lossVars, setupVars >>

\* "Since we are using predict it will block until the inference is
\* complete": predict returns the result once the output is there.
AsyncPredictReturn ==
  /\ At("predict_async_wait")
  /\ inflight # {}
  /\ asyncReq = "done"
  /\ res' = InferenceResult(Cur.ep)
  /\ inflight' = {}
  /\ pc' = pc + 1
  /\ UNCHANGED << shared_data, nb, run, err, calls, iter, ep, sent, cpu, poolVars,
                  scaleVars, asyncReq, job, lossVars, setupVars >>

Next ==
  \/ Deploy
  \/ PredictCall
  \/ PredictReturn
  \/ AsyncPredictCall
  \/ AsyncPredictReturn
  \/ RegisterScalableTarget
  \/ PutScalingPolicy
  \/ Submit
  \/ WorkerStart
  \/ \E i \in 1..MaxRequests : WorkerReturn(i)
  \/ \E i \in 1..MaxRequests : WorkerRaise(i)
  \/ ExitPool
  \/ DescribeEndpoint
  \/ DeleteModel
  \/ AttributeRead
  \/ DeleteEndpoint
  \/ Transform
  \/ Fit
  \/ Raise
  \/ \E c \in 0..MaxAsk : AutoScale(c)
  \/ TrainingJobEnds
  \/ AsyncInferenceEnds

Spec == Init /\ [][Next]_vars

(***************************************************************************)
(* A training step of the distillation job: the batch goes through the     *)
(* student and the teacher, then compute_loss blends the losses.           *)
(***************************************************************************)
InitLoss ==
  /\ nb = "distillation"
  /\ pc = 1
  /\ run = "running"
  /\ err = {}
  /\ calls = [k \in 1..Len(distillation_notebook) |-> 0]
  /\ iter = 0
  /\ ep = [e \in Predictors |-> NoEndpoint]
  /\ inflight = {}
  /\ sent = {}
  /\ shared_data = data
  /\ cpu = 1
  /\ submitted = 0
  /\ pstat = [i \in 1..MaxRequests |-> "new"]
  /\ issued = [i \in 1..MaxRequests |-> 0]
  /\ target = NoTarget
  /\ policy = NoPolicy
  /\ desired = 0
  /\ asyncReq = "none"
  /\ res = NoResult
  /\ job = "InProgress"
  /\ step = "assert"
  /\ logits_size \in [student : {Cardinality(Labels)},
                       teacher : {Cardinality(Labels) - 1, Cardinality(Labels)}]
  /\ args \in [alpha : {Rat(a, AlphaDen) : a \in 0..AlphaDen},
               temperature : 1..MaxTemperature]
  /\ batch_size = 0
  /\ kl_sum = Zero
  /\ kl_ref = Zero
  /\ student_loss = Zero
  /\ loss = Zero
  /\ IdleSetup

\* A compute_loss without the assert statement.
AssertSize_skipped ==
  /\ step = "assert"
  /\ step' = "forward"
  /\ UNCHANGED << notebookVars, setupVars, logits_size, args, batch_size,
                  kl_sum, kl_ref, student_loss, loss >>

\* outputs_student = model(**inputs); outputs_teacher = self.teacher(**inputs)
\* assert outputs_student.logits.size() == outputs_teacher.logits.size()
\* The teacher may have another number of labels than the student; both
\* get the same batch.
AssertSize ==
  /\ step = "assert"
  /\ step' = IF logits_size.student = logits_size.teacher
               THEN "forward" ELSE "AssertionError"
  /\ UNCHANGED << notebookVars, setupVars, logits_size, args, batch_size,
                  kl_sum, kl_ref, student_loss, loss >>

\* The logits of student and teacher for one more row of the batch, whose
\* pointwise terms are added to the sum nn.KLDivLoss takes over all
\* elements.  Student and teacher logits have the same size.
Forward(student, teacher) ==
  /\ step = "forward"
  /\ batch_size < MaxBatch
  /\ batch_size' = batch_size + 1
  /\ kl_sum' = RAdd(kl_sum,
                   KLDivPointwise(
                     log_softmax(Scaled(student, args.temperature)),
                     softmax(Scaled(teacher, args.temperature))))
  /\ kl_ref' = RAdd(kl_ref,
                   KL(softmax(Scaled(teacher, args.temperature)),
                      softmax(Scaled(student, args.temperature))))
  /\ UNCHANGED << notebookVars, setupVars, step, logits_size, args,
                  student_loss, loss >>

\* The return value of compute_loss for the batch.
ComputeLoss(s_loss) ==
  /\ step = "forward"
  /\ batch_size >= 1
  /\ student_loss' = s_loss
  /\ loss' = weighted_loss(args.alpha, s_loss,
                           loss_logits(kl_sum, batch_size, args.temperature))
  /\ step' = "done"
  /\ UNCHANGED << notebookVars, setupVars, logits_size, args, batch_size,
                  kl_sum, kl_ref >>

NextLoss ==
  \/ AssertSize
  \/ LET rows == LogitRows(args.temperature)
     IN \E student \in rows : \E teacher \in rows : Forward(student, teacher)
  \/ \E s \in 0..MaxStudentLoss : ComputeLoss(RInt(s))

SpecLoss == InitLoss /\ [][NextLoss]_vars

(***************************************************************************)
(* A run of the set-up cells.                                              *)
(***************************************************************************)
\* The notebooks that start with the configuration cell.
ConfiguredNotebooks == {"inference_options", "distillation"}

InitSetup ==
  /\ nb \in Notebooks
  /\ pc = 1
  /\ run = "running"
  /\ err = {}
  /\ calls = [k \in 1..Len(Program(nb)) |-> 0]
  /\ iter = 0
  /\ ep = [e \in Predictors |-> NoEndpoint]
  /\ inflight = {}
  /\ sent = {}
  /\ shared_data = data
  /\ cpu = 1
  /\ submitted = 0
  /\ pstat = [i \in 1..MaxRequests |-> "new"]
  /\ issued = [i \in 1..MaxRequests |-> 0]
  /\ target = NoTarget
  /\ policy = NoPolicy
  /\ desired = 0
  /\ asyncReq = "none"
  /\ res = NoResult
  /\ job = "none"
  /\ IdleLoss
  /\ cell = IF nb \in ConfiguredNotebooks THEN "Session" ELSE "role"
  /\ env \in Environments(nb)
  /\ sess = NoSession
  /\ sagemaker_session_bucket = None
  /\ role = Unset
  /\ out = << >>
  /\ hyperparameters = NoHyperparameters
  /\ endpoint_name = Unset
  /\ predictor = NoPredictor

\* An exception leaves the cell: the run stops there.
CellRaises ==
  /\ cell' = "raised"
  /\ UNCHANGED << notebookVars, lossVars, deployVars, env, sess, sagemaker_session_bucket,
                  role, out >>

\* sess = sagemaker.Session(); sagemaker_session_bucket=None (or the name
\* written in its place)
FirstSession ==
  /\ cell = "Session"
  /\ sess' = Session(None)
  /\ sagemaker_session_bucket' = env.given
  /\ cell' = "default_bucket"
  /\ UNCHANGED << notebookVars, lossVars, deployVars, env, role, out >>

\* if sagemaker_session_bucket is None and sess is not None:
\*     sagemaker_session_bucket = sess.default_bucket()
ResolveBucket ==
  /\ cell = "default_bucket"
  /\ IF sagemaker_session_bucket = None /\ sess # NoSession
       THEN IF env.bucket = "ok"
              THEN /\ sagemaker_session_bucket' = DefaultBucket(sess)
                   /\ cell' = "get_execution_role"
                   /\ UNCHANGED << notebookVars, lossVars, deployVars, env, sess, role,
                                   out >>
              ELSE CellRaises
       ELSE /\ cell' = "get_execution_role"
            /\ UNCHANGED << notebookVars, lossVars, deployVars, env, sess,
                            sagemaker_session_bucket, role, out >>

\* A handler that catches every exception of get_execution_role.
GetExecutionRole_except_all ==
  /\ cell = "get_execution_role"
  /\ IF env.execution_role = "ok"
       THEN role' = ExecutionRoleArn /\ cell' = "Session2"
       ELSE role' = role /\ cell' = "get_role"
  /\ UNCHANGED << notebookVars, lossVars, deployVars, env, sess, sagemaker_session_bucket,
                  out >>

\* try: role = sagemaker.get_execution_role()
\* except ValueError: (the handler, GetRole)
GetExecutionRole ==
  /\ cell = "get_execution_role"
  /\ CASE env.execution_role = "ok" ->
            /\ role' = ExecutionRoleArn
            /\ cell' = "Session2"
            /\ UNCHANGED << notebookVars, lossVars, deployVars, env, sess,
                            sagemaker_session_bucket, out >>
       [] env.execution_role = "ValueError" ->
            /\ cell' = "get_role"
            /\ UNCHANGED << notebookVars, lossVars, deployVars, env, sess,
                            sagemaker_session_bucket, role, out >>
       [] OTHER -> CellRaises

\* iam = boto3.client('iam')
\* role = iam.get_role(RoleName='sagemaker_execution_role')['Role']['Arn']
GetRole ==
  /\ cell = "get_role"
  /\ IF env.iam_role = "ok"
       THEN /\ role' = RoleArn("sagemaker_execution_role")
            /\ cell' = "Session2"
            /\ UNCHANGED << notebookVars, lossVars, deployVars, env, sess,
                            sagemaker_session_bucket, out >>
       ELSE CellRaises

\* A second session made like the first, without the bucket.
SecondSession_without_bucket ==
  /\ cell = "Session2"
  /\ sess' = Session(None)
  /\ cell' = "print"
  /\ UNCHANGED << notebookVars, lossVars, deployVars, env, sagemaker_session_bucket, role,
                  out >>

\* sess = sagemaker.Session(default_bucket=sagemaker_session_bucket)
SecondSession ==
  /\ cell = "Session2"
  /\ sess' = Session(sagemaker_session_bucket)
  /\ cell' = "print"
  /\ UNCHANGED << notebookVars, lossVars, deployVars, env, sagemaker_session_bucket, role,
                  out >>

\* print(f"sagemaker role arn: {role}")
\* print(f"sagemaker bucket: {sess.default_bucket()}")
\* print(f"sagemaker session region: {sess.boto_region_name}")
PrintConfiguration ==
  /\ cell = "print"
  /\ out' = out \o << << "sagemaker role arn: ", role >>,
                      << "sagemaker bucket: ", DefaultBucket(sess) >>,
                      << "sagemaker session region: ", sess.region >> >>
  /\ cell' = "configured"
  /\ UNCHANGED << notebookVars, lossVars, deployVars, env, sess,
                  sagemaker_session_bucket, role >>

\* hyperparameters={..., 'alpha': 0.055199695773231194, 'temparature': 19,
\*                  ..., 'hub_token': HfFolder.get_token()}
\* huggingface_estimator = HuggingFace(..., hyperparameters=hyperparameters)
Hyperparameters ==
  /\ cell = "configured"
  /\ nb = "distillation"
  /\ hyperparameters' = [alpha |-> "0.055199695773231194", temparature |-> 19,
                         hub_token |-> env.hub_token]
  /\ cell' = "fit"
  /\ UNCHANGED << notebookVars, lossVars, endpoint_name, predictor, env, sess,
                  sagemaker_session_bucket, role, out >>

\* What the training job writes to its log: the command it was started
\* with, every hyperparameter included.
JobLog(h) ==
  << << "--alpha ", h.alpha >>, << "--temparature ", h.temparature >>,
     << "--hub_token ", h.hub_token >> >>

\* fit() with wait left at its default: the call blocks and streams the
\* log of the training job into the cell's output.
StartTrainingJob_and_wait ==
  /\ cell = "fit"
  /\ job' = "InProgress"
  /\ out' = out \o JobLog(hyperparameters)
  /\ cell' = "fitted"
  /\ UNCHANGED << shared_data, nb, pc, run, err, calls, iter, ep, inflight, sent, cpu,
                  poolVars, scaleVars, asyncReq, res, lossVars, deployVars,
                  env, sess, sagemaker_session_bucket, role >>

\* huggingface_estimator.fit(wait=False): the job is started with the
\* hyperparameters and the call returns; no log is streamed.
StartTrainingJob ==
  /\ cell = "fit"
  /\ job' = "InProgress"
  /\ cell' = "fitted"
  /\ UNCHANGED << shared_data, nb, pc, run, err, calls, iter, ep, inflight, sent, cpu,
                  poolVars, scaleVars, asyncReq, res, lossVars, deployVars,
                  env, sess, sagemaker_session_bucket, role, out >>

\* role = sagemaker.get_execution_role()   (autoscaling notebook: no try)
ExecutionRole ==
  /\ cell = "role"
  /\ IF env.execution_role = "ok"
       THEN /\ role' = ExecutionRoleArn
            /\ cell' = "endpoint_name"
            /\ UNCHANGED << notebookVars, lossVars, deployVars, env, sess,
                            sagemaker_session_bucket, out >>
       ELSE CellRaises

\* hub = {'HF_MODEL_ID': ..., 'HF_TASK': ...}
\* endpoint_name=f'{hub["HF_MODEL_ID"].split("/")[1]}-{str(uuid4())}'
\* huggingface_model = HuggingFaceModel(env=hub, role=role,
\*                                      name=endpoint_name, ...)
\* Index 1 of a list of one piece raises IndexError.
EndpointName ==
  /\ cell = "endpoint_name"
  /\ LET pieces == split(env.model_id, "/")
     IN IF Len(pieces) < 2
          THEN CellRaises
          ELSE /\ endpoint_name' = pieces[2] \o "-" \o env.uuid
               /\ cell' = "deploy"
               /\ UNCHANGED << notebookVars, lossVars, hyperparameters,
                               predictor, env, sess, sagemaker_session_bucket,
                               role, out >>

\* predictor = huggingface_model.deploy(initial_instance_count=1,
\*                                      instance_type="ml.c5.large")
\* aws_region = predictor.sagemaker_session.boto_region_name
\* No endpoint_name is passed: the SDK names the endpoint after the model
\* (whose name is endpoint_name) with a time stamp.  aws_region is
\* predictor.region below.
DeployModel ==
  /\ cell = "deploy"
  /\ predictor' = [endpoint_name |-> NameFromBase(endpoint_name, env.timestamp),
                   region |-> env.region]
  /\ cell' = "deployed"
  /\ UNCHANGED << notebookVars, lossVars, hyperparameters, endpoint_name, env,
                  sess, sagemaker_session_bucket, role, out >>

\* predictor = huggingface_estimator.deploy(1,"ml.c5.xlarge")
\* The endpoint is named after the training job, which the SDK named from
\* base_job_name with a time stamp.
\* With the training job not completed there is no model to deploy and the
\* call raises.
DeployEstimator ==
  /\ cell = "fitted"
  /\ IF job = "Completed"
       THEN /\ predictor' = [endpoint_name |->
                               NameFromBase(job_name, env.timestamp),
                             region |-> env.region]
            /\ cell' = "deployed"
            /\ UNCHANGED << notebookVars, lossVars, hyperparameters,
                            endpoint_name, env, sess,
                            sagemaker_session_bucket, role, out >>
       ELSE CellRaises

\* The f-string of a dashboard URL, as the text before each value of
\* interest and that value.
\* Autoscaling notebook, ModelLatency:
\*   ...?region={aws_region}#...~'EndpointName~'finbert-tone-73d2...-365~'
\*   ...~region~'{aws_region}~...;query=...*20{predictor.endpoint_name}
\* Distillation notebook, ModelLatency:
\*   https://us-east-1.console...?region=us-east-1#...
\*   ~'EndpointName~'{predictor.endpoint_name}~'...~region~'us-east-1~...
\*   ;query=...*20{predictor.endpoint_name}
LatencyUrl(n, p) ==
  IF n = "autoscaling"
    THEN << << "?region=", p.region >>,
            << "~'EndpointName~'", RecordedEndpointName >>,
            << "~region~'", p.region >>,
            << ";query=", p.endpoint_name >> >>
    ELSE << << "?region=", "us-east-1" >>,
            << "~'EndpointName~'", p.endpoint_name >>,
            << "~region~'", "us-east-1" >>,
            << ";query=", p.endpoint_name >> >>

\* Autoscaling notebook, CPUUtilization:
\*   ...?region={aws_region}#...~'EndpointName~'finbert-tone-73d2...-365~'
\*   ...~region~'{aws_region}~...;query=...*20finbert-tone-73d2...-365
\*   *20Endpoint*20{predictor.endpoint_name}*20has...
CpuUrl(p) ==
  << << "?region=", p.region >>,
     << "~'EndpointName~'", RecordedEndpointName >>,
     << "~region~'", p.region >>,
     << ";query=", RecordedEndpointName >>,
     << "*20Endpoint*20", p.endpoint_name >> >>

\* print(f"https://...ModelLatency...")
PrintLatencyUrl ==
  /\ cell = "deployed"
  /\ out' = out \o LatencyUrl(nb, predictor)
  /\ cell' = IF nb = "autoscaling" THEN "monitored" ELSE "end"
  /\ UNCHANGED << notebookVars, lossVars, deployVars, env, sess,
                  sagemaker_session_bucket, role >>

\* print(f"https://...CPUUtilization...")
PrintCpuUrl ==
  /\ cell = "monitored"
  /\ out' = out \o CpuUrl(predictor)
  /\ cell' = "end"
  /\ UNCHANGED << notebookVars, lossVars, deployVars, env, sess,
                  sagemaker_session_bucket, role >>

NextSetup ==
  \/ FirstSession
  \/ ResolveBucket
  \/ GetExecutionRole
  \/ GetRole
  \/ SecondSession
  \/ PrintConfiguration
  \/ Hyperparameters
  \/ StartTrainingJob
  \/ ExecutionRole
  \/ EndpointName
  \/ DeployModel
  \/ DeployEstimator
  \/ PrintLatencyUrl
  \/ PrintCpuUrl
  \/ TrainingJobEnds

SpecSetup == InitSetup /\ [][NextSetup]_vars

\* The scheduling the threaded load test relies on: the main thread goes on
\* submitting and leaves the with block when it can, a pool thread that can
\* take a work item does, and every pooled predict call terminates.
FairSpec ==
  /\ Spec
  /\ WF_vars(Submit)
  /\ WF_vars(WorkerStart)
  /\ WF_vars(\E i \in 1..MaxRequests : WorkerReturn(i) \/ WorkerRaise(i))
  /\ WF_vars(ExitPool)

(***************************************************************************)
(* The claims.                                                             *)
(***************************************************************************)
AfterLoadTest == nb = "autoscaling" /\ pc > LoadTestPc

\* C1: whenever a prediction request is in flight, from the main thread or
\* from a pool thread, the endpoint it was sent to is in service: its deploy
\* call has returned and its delete_endpoint call has not been made.
C1_PredictOnlyWhileInService ==
  /\ \A r \in inflight : ep[r.ep].status = "InService"
  /\ Running # {} => ep["predictor"].status = "InService"

\* C1 witness: the serverless request is in flight, after the first
\* endpoint of the notebook was deleted.
C1_Witness ==
  /\ \E r \in inflight : r.ep = "predictor_sls"
  /\ ep["predictor_rth"].status = "Deleted"

\* C2: when the last statement of a notebook has run, no endpoint the
\* notebook deployed is left: each one is deleted.
C2_NoEndpointLeft ==
  Completed => \A e \in Predictors : ep[e].status \in {"none", "Deleted"}

\* C2 witness: the inference-options notebook has run to its end and its
\* four endpoints are deleted.
C2_Witness ==
  /\ Completed
  /\ \A e \in {"predictor_rth", "predictor_rts3", "async_predictor",
                "predictor_sls"} : ep[e].status = "Deleted"

JsonWithInputs(r) ==
  /\ r.content_type = "application/json"
  /\ r.body = "object"
  /\ "inputs" \in r.keys
  /\ r.keys \subseteq {"inputs", "parameters"}

C4_LossIsWeightedBlend ==
  step = "done" =>
    LET T == args.temperature
        alpha == args.alpha
        mean_kl == RDiv(kl_ref, RInt(batch_size))
    IN loss = RAdd(RMul(alpha, student_loss),
                   RMul(RMul(RSub(RInt(1), alpha), RInt(T * T)), mean_kl))

\* C4 witness: a loss returned for a batch of two rows at temperature 2 and
\* alpha 1/2, with student and teacher disagreeing.
C4_Witness ==
  /\ step = "done"
  /\ batch_size = 2
  /\ args.temperature = 2
  /\ args.alpha = << 1, 2 >>
  /\ kl_ref[1] > 0
  /\ student_loss = << 1, 1 >>

\* C5: once the with block is left, each of the submitted requests has
\* returned or raised, so describe_endpoint and delete_endpoint never run
\* with a pooled request queued or in flight; and, every pooled predict
\* terminating, a load test that was entered is left.
C5_PoolDrainedBeforeExit ==
  /\ [](AfterLoadTest => Finished = 1..MaxRequests)
  /\ (At("load_test") ~> AfterLoadTest)

\* C5 witness: describe_endpoint is next and all requests have finished,
\* some by raising.
C5_Witness ==
  /\ At("describe_endpoint")
  /\ Finished = 1..MaxRequests
  /\ \E i \in 1..MaxRequests : pstat[i] = "raised"

\* C6: never more than os.cpu_count() * 5 pooled requests in flight, no
\* request sent twice, and after the with block each of the submitted
\* requests was sent exactly once.
C6_PoolCapAndCount ==
  /\ Cardinality(Running) <= cpu * 5
  /\ \A i \in 1..MaxRequests : issued[i] <= 1
  /\ AfterLoadTest =>
       /\ submitted = MaxRequests
       /\ \A i \in 1..MaxRequests : issued[i] = 1

\* C6 witness: as many requests in flight as there are workers, with more
\* waiting in the queue.
C6_Witness == Cardinality(Running) = cpu * 5 /\ Queued # {}

\* C7 as stated: whenever an SDK call has raised, in the main thread or in
\* a pool thread, the run is stopped.
C7_EveryFailureStopsRun ==
  (err # {} \/ \E i \in 1..MaxRequests : pstat[i] = "raised")
    => run = "failed"

\* C7 amended: an exception raised by an SDK call made from the main thread
\* reaches the notebook and stops the run at that statement: nothing after
\* it is called, and no call is made again (a statement calls once, a loop
\* of n iterations at most n times, a pooled request is sent at most once).
\* An exception of a pooled predict stays in its future.
C7_MainThreadFailureStopsRun ==
  /\ err # {} => run = "failed" /\ err = {pc}
  /\ run = "failed" =>
       /\ err # {}
       /\ \A k \in DOMAIN calls : k > pc => calls[k] = 0
  /\ \A k \in DOMAIN calls :
       calls[k] <= (IF Prog[k].op = "predict" THEN Prog[k].n ELSE 1)
  /\ \A i \in 1..MaxRequests : issued[i] <= 1

\* C7 witness: describe_endpoint raised after a load test in which a pooled
\* predict had raised.
C7_Witness ==
  /\ run = "failed"
  /\ nb = "autoscaling"
  /\ err = {LoadTestPc + 1}
  /\ \E i \in 1..MaxRequests : pstat[i] = "raised"

C9_DesiredWithinCapacity ==
  (target.registered /\ ep["predictor"].status = "InService")
    => desired \in 1..4

\* C9 witness: the policy asked for more than the maximum and the desired
\* count is 4; it had been scaled from the initial 1.
C9_Witness ==
  /\ target.registered
  /\ ep["predictor"].status = "InService"
  /\ desired = 4

\* C10: when async_predictor.predict has returned, the inference it asked
\* for is complete and res is the result of that request (until the
\* serverless cell assigns res again).
C10_AsyncPredictBlocks ==
  (nb = "inference_options" /\ run = "running" /\ pc > AsyncPredictPc)
    => /\ asyncReq = "done"
       /\ pc <= ServerlessPredictPc =>
            res = InferenceResult("async_predictor")

\* C10 witness: predict has just returned with the result.
C10_Witness ==
  /\ nb = "inference_options"
  /\ run = "running"
  /\ pc = AsyncPredictPc + 1
  /\ res = InferenceResult("async_predictor")

\* The statements of the configuration cell up to the one that sets role,
\* and all of them.
BeforeRole == {"Session", "default_bucket", "get_execution_role", "get_role"}
InConfiguration == BeforeRole \cup {"Session2", "print"}
PastTry ==
  nb \in ConfiguredNotebooks /\ cell \notin BeforeRole \cup {"raised"}
AfterConfiguration ==
  nb \in ConfiguredNotebooks /\ cell \notin InConfiguration \cup {"raised"}

\* C11: the configuration cell ends with role resolved or with an exception.
\* Past the try statement role is set: to the result of get_execution_role
\* when it succeeded, to the ARN of the IAM role 'sagemaker_execution_role'
\* when it raised ValueError and the lookup succeeded; after any other
\* exception, or a failed lookup, the cell is never past the try statement,
\* and a run that an exception has stopped stays stopped.
C11_RoleResolvedOrRaised ==
  /\ [](PastTry =>
          /\ role # Unset
          /\ env.execution_role \in {"ok", "ValueError"}
          /\ env.execution_role = "ok" => role = ExecutionRoleArn
          /\ env.execution_role = "ValueError" =>
               /\ env.iam_role = "ok"
               /\ role = RoleArn("sagemaker_execution_role"))
  /\ [](cell \in BeforeRole => role = Unset)
  /\ [][cell = "raised" => cell' = "raised"]_vars

\* C11 witness: the cell has finished with the role of the fallback lookup.
C11_Witness ==
  /\ cell = "configured"
  /\ env.execution_role = "ValueError"
  /\ role = RoleArn("sagemaker_execution_role")

\* C15: after the configuration cell sagemaker_session_bucket is not None
\* and is the default bucket of the final session: the first session's
\* default bucket when no name was given, the given name otherwise.
C15_BucketResolved ==
  AfterConfiguration =>
    /\ sagemaker_session_bucket # None
    /\ DefaultBucket(sess) = sagemaker_session_bucket
    /\ env.given = None =>
         sagemaker_session_bucket = DefaultBucket(Session(None))
    /\ env.given # None => sagemaker_session_bucket = env.given

\* C15 witness: the cell has finished with a bucket name that was given.
C15_Witness ==
  /\ cell = "configured"
  /\ env.given = "my-bucket"
  /\ out[2] = << "sagemaker bucket: ", "my-bucket" >>

\* What the configuration cell prints for the answers e, the Hugging Face
\* token left out.
ConfigurationPrints(e) ==
  << << "sagemaker role arn: ",
        IF e.execution_role = "ok"
          THEN ExecutionRoleArn ELSE RoleArn("sagemaker_execution_role") >>,
     << "sagemaker bucket: ",
        IF e.given = None THEN AccountBucket(e.region) ELSE e.given >>,
     << "sagemaker session region: ", e.region >> >>

\* C12: starting the training job with fit(wait=False) does not expose the
\* Hugging Face token: once the job is started, what the notebook has
\* printed is what the configuration cell prints for the other inputs,
\* whatever the token (so it is the same for any two tokens), and no printed
\* value is the token.
C12_TokenNotInOutput ==
  /\ cell = "fitted" =>
       /\ hyperparameters.hub_token = env.hub_token
       /\ out = ConfigurationPrints([env EXCEPT !.hub_token = None])
  /\ \A i \in DOMAIN out : out[i][2] \notin Tokens

\* C12 witness: the job was started with a token among its hyperparameters.
C12_Witness ==
  /\ cell = "fitted"
  /\ job = "InProgress"
  /\ hyperparameters.hub_token = "hf_token_of_B"

\* C13: the dashboard URL a notebook prints is assembled from the current
\* deployment: its EndpointName dimension is the name of the endpoint just
\* deployed and its region is the region of the predictor's session.
C13_UrlOfCurrentDeployment ==
  \A i \in DOMAIN out :
    /\ out[i][1] = "~'EndpointName~'" => out[i][2] = predictor.endpoint_name
    /\ out[i][1] \in {"?region=", "~region~'"} => out[i][2] = predictor.region

\* C19: in the autoscaling notebook the deployed endpoint has the name the
\* notebook computed, and computing that name never raises: the set-up
\* stops only where get_execution_role fails.
C19_EndpointNamedAsComputed ==
  nb = "autoscaling" =>
    /\ cell \in {"deployed", "monitored", "end"} =>
         predictor.endpoint_name = endpoint_name
    /\ cell = "raised" => env.execution_role # "ok"

\* C14: in the autoscaling notebook the scaling policy is put only once the
\* scalable target is registered, and the target only once the endpoint is
\* deployed; target and policy name the same ResourceId
\* (endpoint/<predictor.endpoint_name>/variant/AllTraffic) and the same
\* ScalableDimension, and the policy's metric dimensions name that endpoint
\* and variant.
C14_PolicyAfterTargetAfterDeploy ==
  /\ [](target.registered =>
         /\ nb = "autoscaling"
         /\ target.ResourceId = ResourceId("predictor"))
  /\ [](policy.put =>
         /\ target.registered
         /\ policy.ResourceId = target.ResourceId
         /\ policy.ScalableDimension = target.ScalableDimension
         /\ policy.Dimensions.EndpointName = target.ResourceId[2]
         /\ policy.Dimensions.VariantName = target.ResourceId[4])
  /\ [][~target.registered /\ target'.registered
          => ep["predictor"].status = "InService"]_vars
  /\ [][~policy.put /\ policy'.put => target.registered]_vars

\* C14 witness: target registered and policy put on the deployed endpoint's
\* variant.
C14_Witness ==
  /\ policy.put
  /\ target.registered
  /\ policy.ResourceId = << "endpoint", "predictor", "variant", "AllTraffic" >>
  /\ ep["predictor"].status = "InService"

\* C16: compute_loss returns a loss only when the student's and the
\* teacher's logits have the same size; when they differ it raises
\* AssertionError with no distillation loss computed, and returns nothing.
C16_SameSizeOrAssertionError ==
  /\ step = "done" => logits_size.student = logits_size.teacher
  /\ logits_size.student # logits_size.teacher =>
       /\ step \in {"assert", "AssertionError"}
       /\ batch_size = 0
       /\ kl_sum = Zero
       /\ loss = Zero
  /\ step = "AssertionError" => logits_size.student # logits_size.teacher

\* C16 witness: the teacher has one label fewer than the student and the
\* assert has raised.
C16_Witness ==
  /\ step = "AssertionError"
  /\ logits_size.teacher = logits_size.student - 1

\* The positions of the sequential load loops in the notebook being run.
LoadLoops == {k \in DOMAIN Prog : Prog[k].op = "predict" /\ Prog[k].n > 1}

\* C18: a sequential load loop of n iterations issues exactly n predict
\* calls with the same payload, each only after the previous one returned,
\* so that at most one request is in flight; a request that raises ends the
\* loop (and the run).
C18_SequentialLoop ==
  /\ [](\A k \in LoadLoops :
          /\ calls[k] <= Prog[k].n
          /\ (run = "running" /\ pc > k) => calls[k] = Prog[k].n
          /\ pc = k =>
               /\ Cardinality(inflight) <= 1
               /\ Running = {}
               /\ calls[k] = iter + (IF run = "failed" THEN 1
                                     ELSE Cardinality(inflight))
               /\ \A r \in sent : r.ep = Prog[k].ep =>
                     r.request = Serialize(ep[Prog[k].ep].serializer,
                                           Prog[k].data))
  /\ [][\A k \in LoadLoops :
          (pc = k /\ run' = "failed") => (pc' = k /\ calls' = calls)]_vars
  /\ [][run = "failed" => calls' = calls]_vars

\* C18 witness: the loop of the distillation notebook has made all its
\* calls and the run has gone on.
C18_Witness ==
  /\ nb = "distillation"
  /\ run = "running"
  /\ \E k \in LoadLoops : pc > k /\ calls[k] = MaxLoop /\ inflight = {}

\* C20: the teardown of every deployed predictor deletes its model and its
\* endpoint, the model first: when an endpoint is deleted its model already
\* is, and after a notebook has run to its end neither the endpoint nor the
\* model of any deploy call is left.
C20_ModelAndEndpointDeleted ==
  \A e \in Predictors :
    /\ ep[e].status = "Deleted" => ep[e].model = "deleted"
    /\ Completed => /\ ep[e].status \in {"none", "Deleted"}
                    /\ ep[e].model \in {"none", "deleted"}

\* C21: the distillation notebook deploys the estimator only once its
\* training job has completed: a deploy call is never made with the job in
\* progress or without a model artifact.  (A completed job stays completed,
\* so a call made then leaves job = "Completed" for good.)
C21_DeployAfterTraining ==
  \A k \in DOMAIN Prog :
    (Prog[k].op = "deploy" /\ Prog[k].mode = "estimator" /\ calls[k] > 0)
      => job = "Completed"

\* The endpoints the notebook created that exist at the service.
Existing == {e \in Predictors : ep[e].status = "InService"}

\* C22: in the inference-options notebook at most one endpoint created by
\* the notebook exists at any time: when a deploy call starts, every
\* endpoint deployed before it has been deleted.
C22_OneEndpointAtATime ==
  nb = "inference_options" =>
    /\ Cardinality(Existing) <= 1
    /\ At("deploy") => Existing = {}

\* C22 witness: the serverless endpoint, the last of the four, is in
\* service and the three deployed before it are deleted.
C22_Witness ==
  /\ nb = "inference_options"
  /\ Existing = {"predictor_sls"}
  /\ \A e \in {"predictor_rth", "predictor_rts3", "async_predictor"} :
       ep[e].status = "Deleted"

\* The calls a notebook makes on an endpoint between its deploy and its
\* teardown.
UseOps ==
  {"predict", "predict_async_wait", "register_scalable_target",
   "put_scaling_policy", "describe_endpoint"}

PoolStep == pstat' # pstat

\* C24: the payload data and the predictor shared by the pool threads are
\* only read: a step of the pool changes neither, data is what it was
\* bound to at every point of the run, and every request the autoscaling
\* notebook sent, pooled ones included, carried that same payload.
C24_SharedObjectsOnlyRead ==
  /\ [](shared_data = data)
  /\ [](nb = "autoscaling" =>
         \A r \in sent :
           r = [ep |-> "predictor",
                request |-> Serialize("JSONSerializer", data)])
  /\ [][PoolStep => (shared_data' = shared_data /\ ep' = ep)]_vars

\* C24 witness: every pooled request has been sent and has finished, some
\* returned and some raised, and the load test is left.
C24_Witness ==
  /\ AfterLoadTest
  /\ \A i \in 1..requests : issued[i] = 1
  /\ \E i \in 1..requests : pstat[i] = "raised"
  /\ pstat[requests] = "returned"
  /\ shared_data = data

====
